---- MODULE Spec2Model ----
(***************************************************************************)
(* A model of package memory (manager.go): a Manager hands out byte       *)
(* blocks of power-of-two size classes and takes them back.                *)
(*                                                                         *)
(* Callers are the threads of Procs, the managers those of Managers, each  *)
(* with fields of its own.  Each public method is modelled as the sequence *)
(* of its statements; pc[p] is the statement thread p is at and m[p] the   *)
(* manager it was called on.                                               *)
(* Go's int is modelled as a WordBits-bit two's complement integer (the    *)
(* 32-bit builds of Go; the 64-bit builds behave alike with the wrap at    *)
(* 2^63).  A byte is modelled as zero or nonzero: heap[a].dirty is the set *)
(* of offsets of block a that hold a nonzero byte.                         *)
(***************************************************************************)
EXTENDS Integers, Sequences, FiniteSets, TLC

\* ------------------------------------------------------------- constants
smallestBlockSize == 1024

\* make([][][]byte, 21): the number of size classes.
NumClasses == 21

\* Width of Go's int.
WordBits == 32

MaxInt == (2^(WordBits - 2) - 1) * 2 + 1
MinInt == -MaxInt - 1

\* ---------------------------------------------------------------- bounds
\* Callers ask for a block only while the blocks made so far and the
\* GetBlock calls under way together stay below MaxBlocks.
MaxBlocks == 3

\* The class counter s of GetBlock's search loop is kept up to MaxS; past
\* it the loop goes on with s left as it is (s is not read inside the loop).
MaxS == 23

\* Beside a running TotalAllocations, callers ask for a block only while
\* fewer than MaxReportBlocks blocks have been made.
MaxReportBlocks == 2

Procs == {"p1", "p2"}

\* Request sizes the callers pass to GetBlock: a negative one, none, one
\* of class 0 and one past the largest class.
Sizes == {-1, 0, 1000, smallestBlockSize * 2^20 + 1}

\* Request sizes of the caller that writes into its blocks: two classes.
ByteSizes == {-1, 0, 1000, 2000}

\* Request sizes around the class sizes, up to the largest class.
WideSizes == {0, 1, 511, 512, 1000, 1024, 1025, 2000, 2048, 2049,
              smallestBlockSize * 2^19 + 1, smallestBlockSize * 2^20}

\* Request sizes of the callers of two managers.
TwoSizes == {0, 1000}

\* Request sizes of the caller that runs beside TotalAllocations.
ReportSizes == {1000, 2000}

\* The managers made by NewManager.
Managers == {"A", "B"}
NoManager == "none"

NoProc == "none"
NoView == [addr |-> -1, len |-> 0]
\* A byte slice that was not handed out by the manager.
ForeignView == [addr |-> 0, len |-> 1]
NoResult == [kind |-> "none"]

VARIABLES
  blocks,           \* per manager, m.blocks: class index -> sequence of
                    \* block addresses
  used,             \* per manager, m.used: the addresses that are keys of
                    \* the map
  mutex,            \* per manager, m.mutex: the thread holding it, or NoProc
  heap,             \* address -> [len, dirty]: the byte arrays made so far
  pc,               \* per thread: the statement it is at
  m,                \* per thread: the receiver of the method it is in
  n, c, s, i,       \* per thread: the locals of GetBlock / TotalAllocations
  new_block,        \* per thread: GetBlock's new_block (an address)
  b,                \* per thread: FreeBlock's argument (a view)
  ret, total_used, total_allocated,  \* per thread: TotalAllocations' locals
  held,             \* per thread: the view the caller keeps (last returned)
  result,           \* per thread: how its last call ended
  outstanding,      \* address -> views returned and not released since
  stable,           \* per manager: blocks and used as of the last
                    \* completed operation
  seen,             \* per thread: the states blocks and used went through
                    \* during its running TotalAllocations
  commits,          \* per thread: reports of the stable states during its
                    \* running TotalAllocations
  cleared           \* per thread: the nonzero offsets its running GetBlock
                    \* set to zero

vars == <<blocks, used, mutex, heap, pc, m, n, c, s, i, new_block, b, ret,
          total_used, total_allocated, held, result, outstanding, stable,
          seen, commits, cleared>>

\* ---------------------------------------------------- machine arithmetic
\* x + y of Go's int: wraps modulo 2^WordBits.
AddW(x, y) ==
  IF x >= 0 /\ y >= 0 /\ x > MaxInt - y THEN (x + MinInt) + (y + MinInt)
  ELSE IF x < 0 /\ y < 0 /\ x < MinInt - y THEN (x - MinInt) + (y - MinInt)
  ELSE x + y

\* k * x of Go's int for a small count k >= 0.
RECURSIVE MulW(_, _)
MulW(k, x) == IF k = 0 THEN 0 ELSE AddW(x, MulW(k - 1, x))

Classes == 0 .. (NumClasses - 1)

\* Every manager working on the fields of the one manager A.
FieldsShared(mm) == "A"

\* The Manager value that holds the fields of manager mm: each NewManager
\* makes its own.
Fields(mm) == mm

\* The manager on whose fields the method thread p is in works.
Mgr(p) == Fields(m[p])

\* ------------------------------------------------------------ the manager
\* NewManager.
Init ==
  /\ blocks = [mm \in Managers |-> [t \in Classes |-> <<>>]]
  /\ used = [mm \in Managers |-> {}]
  /\ mutex = [mm \in Managers |-> NoProc]
  /\ heap = <<>>
  /\ pc = [p \in Procs |-> "idle"]
  /\ m = [p \in Procs |-> NoManager]
  /\ n = [p \in Procs |-> 0]
  /\ c = [p \in Procs |-> 0]
  /\ s = [p \in Procs |-> 0]
  /\ i = [p \in Procs |-> 0]
  /\ new_block = [p \in Procs |-> 0]
  /\ b = [p \in Procs |-> NoView]
  /\ ret = [p \in Procs |-> <<>>]
  /\ total_used = [p \in Procs |-> 0]
  /\ total_allocated = [p \in Procs |-> 0]
  /\ held = [p \in Procs |-> NoView]
  /\ result = [p \in Procs |-> NoResult]
  /\ outstanding = <<>>
  /\ stable = [mm \in Managers |->
                 [blocks |-> [t \in Classes |-> <<>>], used |-> {}]]
  /\ seen = [p \in Procs |-> {}]
  /\ commits = [p \in Procs |-> {}]
  /\ cleared = [p \in Procs |-> {}]

\* ------------------------------------------------------ TotalAllocations
\* The inner loop over one class: the blocks of class t that are in use.
ClassUsed(bl, us, t) ==
  Cardinality({k \in 1 .. Len(bl[t]) : bl[t][k] \in us})

\* One decimal digit.
Digit(d) ==
  CASE d = 0 -> "0" [] d = 1 -> "1" [] d = 2 -> "2" [] d = 3 -> "3"
    [] d = 4 -> "4" [] d = 5 -> "5" [] d = 6 -> "6" [] d = 7 -> "7"
    [] d = 8 -> "8" [] d = 9 -> "9"

\* The decimal digits of k >= 0.
RECURSIVE Digits(_)
Digits(k) == IF k < 10 THEN Digit(k) ELSE Digits(k \div 10) \o Digit(k % 10)

\* The verb %d of fmt.Sprintf applied to an int.
FormatInt(k) ==
  IF k >= 0 THEN Digits(k)
  ELSE LET d == (10 - (k % 10)) % 10 IN
       IF k + d = 0 THEN "-" \o Digit(d)
       ELSE "-" \o Digits(-((k + d) \div 10)) \o Digit(d)

\* fmt.Sprintf("%d bytes: %d/%d blocks in use.\n", c, used, len(m.blocks[s]))
ClassLine(cc, u, len) ==
  FormatInt(cc) \o " bytes: " \o FormatInt(u) \o "/" \o FormatInt(len)
    \o " blocks in use.\n"

\* fmt.Sprintf("Total memory used/allocated: %d/%d\n", ...)
TotalsLine(tu, ta) ==
  "Total memory used/allocated: " \o FormatInt(tu) \o "/" \o FormatInt(ta)
    \o "\n"

\* Every class getting its line, in use or not.
ListsClassAlways(u) == TRUE

\* if used > 0
ListsClass(u) == u > 0

\* One pass of the outer loop, for class t with class size cc: the locals
\* after it.  The string ret is kept as the sequence of its lines.
ClassPass(bl, us, t, cc, r, tu, ta) ==
  LET u == ClassUsed(bl, us, t) IN
  [ret |-> IF ListsClass(u) THEN Append(r, ClassLine(cc, u, Len(bl[t])))
           ELSE r,
   total_used |-> AddW(tu, MulW(u, cc)),
   total_allocated |-> AddW(ta, MulW(Len(bl[t]), cc)),
   c |-> AddW(cc, cc)]

\* The returned string: the class lines, then the line of the totals.
ReportText(r, tu, ta) == Append(r, TotalsLine(tu, ta))

\* TotalAllocations run from start to end on one state of the manager.
RECURSIVE ReportFrom(_, _, _, _, _, _, _)
ReportFrom(bl, us, t, cc, r, tu, ta) ==
  IF t = NumClasses THEN ReportText(r, tu, ta)
  ELSE LET a == ClassPass(bl, us, t, cc, r, tu, ta) IN
       ReportFrom(bl, us, t + 1, a.c, a.ret, a.total_used, a.total_allocated)

ReportOf(bl, us) == ReportFrom(bl, us, 0, smallestBlockSize, <<>>, 0, 0)

GetPcs == {"G_lock", "G_search", "G_scan", "G_mark", "G_zero", "G_return",
           "G_make", "G_append", "G_marknew", "G_slice"}
FreePcs == {"F_lock", "F_check", "F_delete"}
TotalPcs == {"T_class"}

\* ------------------------------------------------------- calls and returns
\* The fields of manager mm having become nb and nu, the TotalAllocations
\* calls running on mm have these before them too.
Passed(mm, nb, nu) ==
  [q \in Procs |->
     IF pc[q] \in TotalPcs /\ Mgr(q) = mm
     THEN seen[q] \cup {[blocks |-> nb, used |-> nu]}
     ELSE seen[q]]

\* The mutex left locked when the method returns.
StillLocked(mu) == mu

\* defer m.mutex.Unlock(): the mutex once the method has returned or
\* panicked.
DeferredUnlock(mu) == NoProc

\* A call of thread p ends with result res, the manager's fields being nb
\* and nu: the deferred Unlock runs and the locals die.  The thread is then
\* back in its caller (pc "returned"), which has the result before it.
Complete(p, res, nb, nu) ==
  /\ pc' = [pc EXCEPT ![p] = "returned"]
  /\ m' = [m EXCEPT ![p] = NoManager]
  /\ mutex' = [mutex EXCEPT ![Mgr(p)] = DeferredUnlock(@)]
  /\ result' = [result EXCEPT ![p] = res]
  /\ n' = [n EXCEPT ![p] = 0]
  /\ c' = [c EXCEPT ![p] = 0]
  /\ s' = [s EXCEPT ![p] = 0]
  /\ i' = [i EXCEPT ![p] = 0]
  /\ new_block' = [new_block EXCEPT ![p] = 0]
  /\ b' = [b EXCEPT ![p] = NoView]
  /\ stable' = [stable EXCEPT ![Mgr(p)] = [blocks |-> nb, used |-> nu]]
  /\ seen' = Passed(Mgr(p), nb, nu)
  /\ commits' = [q \in Procs |->
                   IF pc[q] \in TotalPcs /\ Mgr(q) = Mgr(p)
                   THEN commits[q] \cup {ReportOf(nb, nu)}
                   ELSE commits[q]]
  /\ cleared' = [cleared EXCEPT ![p] = {}]

\* The method thread p is in.
OpOf(p) == IF pc[p] \in GetPcs THEN "GetBlock" ELSE "FreeBlock"

\* The views of the block at address a that were returned by GetBlock and
\* not released by a FreeBlock since (none for a foreign address).
Out(a) == IF a \in DOMAIN outstanding THEN outstanding[a] ELSE 0

\* A run-time panic or panic() inside a locked method: the caller recovers.
Panic(p, why) ==
  Complete(p, [kind |-> "panic", op |-> OpOf(p), m |-> m[p], why |-> why,
               n |-> n[p], b |-> b[p], out |-> Out(b[p].addr)],
           blocks[Mgr(p)], used[Mgr(p)])

\* Lock() that does not wait for the holder.
MutexIgnored(mu) == TRUE

\* m.mutex.Lock() can be taken.
MutexAvailable(mu) == mu = NoProc

\* ---------------------------------------------------------------- GetBlock
\* The caller: block := mm.GetBlock(k).
CallGetBlock(p, mm, k) ==
  /\ pc[p] = "idle"
  /\ m' = [m EXCEPT ![p] = mm]
  /\ Len(heap) + Cardinality({q \in Procs : pc[q] \in GetPcs}) < MaxBlocks
  /\ pc' = [pc EXCEPT ![p] = "G_lock"]
  /\ n' = [n EXCEPT ![p] = k]
  /\ UNCHANGED <<blocks, used, mutex, heap, c, s, i, new_block, b, ret,
                 total_used, total_allocated, held, result, outstanding,
                 stable, seen, commits,
                 cleared>>

\* m.mutex.Lock(); c := smallestBlockSize; s := 0
G_Lock(p) ==
  /\ pc[p] = "G_lock"
  /\ MutexAvailable(mutex[Mgr(p)])
  /\ mutex' = [mutex EXCEPT ![Mgr(p)] = p]
  /\ c' = [c EXCEPT ![p] = smallestBlockSize]
  /\ s' = [s EXCEPT ![p] = 0]
  /\ pc' = [pc EXCEPT ![p] = "G_search"]
  /\ UNCHANGED <<m, blocks, used, heap, n, i, new_block, b, ret, total_used,
                 total_allocated, held, result, outstanding, stable, seen, commits,
                 cleared>>

\* The search loop going on one class too far at a class size: c <= n.
LoopCondInclusive(cc, k) == cc <= k

\* The condition of the search loop: for c < n.
LoopCond(cc, k) == cc < k

\* The class size growing fourfold in one pass of the loop.
Quadrupled(cc) == AddW(AddW(cc, cc), AddW(cc, cc))

\* c *= 2
Doubled(cc) == AddW(cc, cc)

\* The search loop entered with class size cc for a request of k bytes
\* leaves within fuel passes.
RECURSIVE LoopEnds(_, _, _)
LoopEnds(cc, k, fuel) ==
  IF ~LoopCond(cc, k) THEN TRUE
  ELSE IF fuel = 0 THEN FALSE
  ELSE LoopEnds(Doubled(cc), k, fuel - 1)

\* The scan leaving out the first block of a collection of several.
FirstIndexSkipping(class) == IF Len(class) > 1 THEN 1 ELSE 0

\* for i := range m.blocks[s]: the index the scan of a collection starts at.
FirstIndex(class) == 0

\* One test of the search loop, with its body { c *= 2; s++ } when it
\* holds; when it fails, m.blocks[s] is evaluated for the range loop.
G_Search(p) ==
  /\ pc[p] = "G_search"
  /\ IF LoopCond(c[p], n[p])
     THEN /\ c' = [c EXCEPT ![p] = Doubled(c[p])]
          /\ s' = [s EXCEPT ![p] = IF s[p] < MaxS THEN s[p] + 1 ELSE s[p]]
          /\ UNCHANGED <<m, blocks, used, mutex, heap, pc, n, i, new_block, b,
                         ret, total_used, total_allocated, held, result,
                         outstanding, stable, seen, commits,
                 cleared>>
     ELSE IF s[p] \in Classes
     THEN /\ pc' = [pc EXCEPT ![p] = "G_scan"]
          /\ i' = [i EXCEPT ![p] = FirstIndex(blocks[Mgr(p)][s[p]])]
          /\ UNCHANGED <<m, blocks, used, mutex, heap, n, c, s, new_block, b,
                         ret, total_used, total_allocated, held, result,
                         outstanding, stable, seen, commits,
                 cleared>>
     ELSE /\ Panic(p, "index out of range")
          /\ UNCHANGED <<blocks, used, heap, ret, total_used,
                         total_allocated, held, outstanding>>

\* The test of the scan inverted: m.used[...] for !m.used[...].
IsFreeInverted(us, a) == a \in us

\* !m.used[&m.blocks[s][i][0]]
IsFree(us, a) == a \notin us

\* The block the scan is at: m.blocks[s][i].
Cur(p) == blocks[Mgr(p)][s[p]][i[p] + 1]

\* for i := range m.blocks[s] { if !m.used[...] {
G_Scan(p) ==
  /\ pc[p] = "G_scan"
  /\ IF i[p] < Len(blocks[Mgr(p)][s[p]])
     THEN IF IsFree(used[Mgr(p)], Cur(p))
          THEN /\ pc' = [pc EXCEPT ![p] = "G_mark"]
               /\ i' = i
          ELSE /\ i' = [i EXCEPT ![p] = i[p] + 1]
               /\ pc' = pc
     ELSE /\ pc' = [pc EXCEPT ![p] = "G_make"]
          /\ i' = i
  /\ UNCHANGED <<m, blocks, used, mutex, heap, n, c, s, new_block, b, ret,
                 total_used, total_allocated, held, result, outstanding,
                 stable, seen, commits,
                 cleared>>

\* m.used[&m.blocks[s][i][0]] = true
G_Mark(p) ==
  /\ pc[p] = "G_mark"
  /\ used' = [used EXCEPT ![Mgr(p)] = @ \cup {Cur(p)}]
  /\ seen' = Passed(Mgr(p), blocks[Mgr(p)], used[Mgr(p)] \cup {Cur(p)})
  /\ pc' = [pc EXCEPT ![p] = "G_zero"]
  /\ UNCHANGED <<m, blocks, mutex, heap, n, c, s, i, new_block, b, ret,
                 total_used, total_allocated, held, result, outstanding,
                 stable, commits, cleared>>

\* The clearing loop stopping one byte early.
ZeroedBytesButLast(dirty, len) == {o \in dirty : o >= len - 1}

\* for j := range m.blocks[s][i] { m.blocks[s][i][j] = 0 }: the nonzero
\* offsets left in a stored slice of length len.
ZeroedBytes(dirty, len) == {o \in dirty : o >= len}

G_Zero(p) ==
  /\ pc[p] = "G_zero"
  /\ heap' = [heap EXCEPT ![Cur(p)].dirty =
                ZeroedBytes(@, heap[Cur(p)].len)]
  /\ cleared' = [cleared EXCEPT ![p] =
                   heap[Cur(p)].dirty \ ZeroedBytes(heap[Cur(p)].dirty,
                                                    heap[Cur(p)].len)]
  /\ pc' = [pc EXCEPT ![p] = "G_return"]
  /\ UNCHANGED <<m, blocks, used, mutex, n, c, s, i, new_block, b, ret,
                 total_used, total_allocated, held, result, outstanding,
                 stable, seen, commits>>

\* A view handed to the caller of GetBlock(k): what the call ended with.
Returned(p, a, len, reused) ==
  [kind |-> "view", op |-> "GetBlock", m |-> m[p], n |-> n[p], addr |-> a,
   len |-> len,
   reused |-> reused, nonzero |-> {o \in heap[a].dirty : o < len},
   cleared |-> cleared[p], cap |-> heap[a].len, class |-> s[p]]

\* The slice the reuse path returns: return m.blocks[s][i].
ReusedLen(p) == heap[Cur(p)].len

\* return m.blocks[s][i]
G_Return(p) ==
  /\ pc[p] = "G_return"
  /\ held' = [held EXCEPT ![p] = [addr |-> Cur(p), len |-> ReusedLen(p)]]
  /\ outstanding' = [outstanding EXCEPT ![Cur(p)] = @ + 1]
  /\ Complete(p, Returned(p, Cur(p), ReusedLen(p), TRUE),
              blocks[Mgr(p)], used[Mgr(p)])
  /\ UNCHANGED <<blocks, used, heap, ret, total_used, total_allocated>>

\* new_block := make([]byte, c)
G_Make(p) ==
  /\ pc[p] = "G_make"
  /\ IF c[p] >= 0
     THEN /\ heap' = Append(heap, [len |-> c[p], dirty |-> {}])
          /\ outstanding' = Append(outstanding, 0)
          /\ new_block' = [new_block EXCEPT ![p] = Len(heap) + 1]
          /\ pc' = [pc EXCEPT ![p] = "G_append"]
          /\ UNCHANGED <<m, blocks, used, mutex, n, c, s, i, b, ret, total_used,
                         total_allocated, held, result, stable, seen, commits,
                 cleared>>
     ELSE /\ Panic(p, "makeslice: len out of range")
          /\ UNCHANGED <<blocks, used, heap, ret, total_used,
                         total_allocated, held, outstanding>>

\* The class collection replaced by the new block instead of extended.
AppendBlockReplacing(class, a) == <<a>>

\* append(m.blocks[s], new_block)
AppendBlock(class, a) == Append(class, a)

\* m.blocks[s] = append(m.blocks[s], new_block)
G_Append(p) ==
  /\ pc[p] = "G_append"
  /\ blocks' = [blocks EXCEPT ![Mgr(p)][s[p]] = AppendBlock(@, new_block[p])]
  /\ seen' = Passed(Mgr(p),
                    [blocks[Mgr(p)] EXCEPT
                       ![s[p]] = AppendBlock(@, new_block[p])],
                    used[Mgr(p)])
  /\ pc' = [pc EXCEPT ![p] = "G_marknew"]
  /\ UNCHANGED <<m, used, mutex, heap, n, c, s, i, new_block, b, ret,
                 total_used, total_allocated, held, result, outstanding,
                 stable, commits, cleared>>

\* The key taken one byte into the new block, &new_block[1]: the address
\* -a stands for it, the first byte of no block.
NewBlockKeyOff(a) == -a

\* &new_block[0]: the key of the block at address a.
NewBlockKey(a) == a

\* m.used[&new_block[0]] = true
G_MarkNew(p) ==
  /\ pc[p] = "G_marknew"
  /\ IF heap[new_block[p]].len > 0
     THEN /\ used' = [used EXCEPT ![Mgr(p)] =
                          @ \cup {NewBlockKey(new_block[p])}]
          /\ seen' = Passed(Mgr(p), blocks[Mgr(p)],
                            used[Mgr(p)] \cup {NewBlockKey(new_block[p])})
          /\ pc' = [pc EXCEPT ![p] = "G_slice"]
          /\ UNCHANGED <<m, blocks, mutex, heap, n, c, s, i, new_block, b, ret,
                         total_used, total_allocated, held, result,
                         outstanding, stable, commits, cleared>>
     ELSE /\ Panic(p, "index out of range")
          /\ UNCHANGED <<blocks, used, heap, ret, total_used,
                         total_allocated, held, outstanding>>

\* return new_block[0:n]
G_Slice(p) ==
  /\ pc[p] = "G_slice"
  /\ IF 0 <= n[p] /\ n[p] <= heap[new_block[p]].len
     THEN /\ held' = [held EXCEPT ![p] = [addr |-> new_block[p], len |-> n[p]]]
          /\ outstanding' = [outstanding EXCEPT ![new_block[p]] = @ + 1]
          /\ Complete(p, Returned(p, new_block[p], n[p], FALSE),
                      blocks[Mgr(p)], used[Mgr(p)])
     ELSE /\ Panic(p, "slice bounds out of range")
          /\ UNCHANGED <<held, outstanding>>
  /\ UNCHANGED <<blocks, used, heap, ret, total_used, total_allocated>>

\* --------------------------------------------------------------- FreeBlock
\* The views a caller has at hand to pass to FreeBlock: the one it keeps
\* (also after it released it) and a slice the manager never handed out.
FreeArgs(p) == ({held[p]} \ {NoView}) \cup {ForeignView}

\* The caller: mm.FreeBlock(v).
CallFreeBlock(p, mm, v) ==
  /\ pc[p] = "idle"
  /\ m' = [m EXCEPT ![p] = mm]
  /\ pc' = [pc EXCEPT ![p] = "F_lock"]
  /\ b' = [b EXCEPT ![p] = v]
  /\ UNCHANGED <<blocks, used, mutex, heap, n, c, s, i, new_block, ret,
                 total_used, total_allocated, held, result, outstanding,
                 stable, seen, commits,
                 cleared>>

\* m.mutex.Lock()
F_Lock(p) ==
  /\ pc[p] = "F_lock"
  /\ MutexAvailable(mutex[Mgr(p)])
  /\ mutex' = [mutex EXCEPT ![Mgr(p)] = p]
  /\ pc' = [pc EXCEPT ![p] = "F_check"]
  /\ UNCHANGED <<m, blocks, used, heap, n, c, s, i, new_block, b, ret,
                 total_used, total_allocated, held, result, outstanding,
                 stable, seen, commits,
                 cleared>>

\* The check of FreeBlock always passing.
IsUsedAlways(us, a) == TRUE

\* _, ok := m.used[a]
IsUsed(us, a) == a \in us

\* if _, ok := m.used[&b[0]]; !ok { panic(...) }
F_Check(p) ==
  /\ pc[p] = "F_check"
  /\ IF b[p].len = 0
     THEN /\ Panic(p, "index out of range")
          /\ UNCHANGED <<blocks, used, heap, ret, total_used,
                         total_allocated, held, outstanding>>
     ELSE IF IsUsed(used[Mgr(p)], b[p].addr)
     THEN /\ pc' = [pc EXCEPT ![p] = "F_delete"]
          /\ UNCHANGED <<m, blocks, used, mutex, heap, n, c, s, i, new_block, b,
                         ret, total_used, total_allocated, held, result,
                         outstanding, stable, seen, commits,
                 cleared>>
     ELSE /\ Panic(p, "Tried to free an unused block")
          /\ UNCHANGED <<blocks, used, heap, ret, total_used,
                         total_allocated, held, outstanding>>

\* Every key of the map deleted.
DeleteAll(us, a) == {}

\* delete(m.used, a)
DeleteKey(us, a) == us \ {a}

\* delete(m.used, &b[0])
F_Delete(p) ==
  /\ pc[p] = "F_delete"
  /\ used' = [used EXCEPT ![Mgr(p)] = DeleteKey(@, b[p].addr)]
  /\ outstanding' = [a \in DOMAIN outstanding |->
                       IF a = b[p].addr THEN 0 ELSE outstanding[a]]
  /\ Complete(p, [kind |-> "freed", op |-> "FreeBlock", m |-> m[p],
                  b |-> b[p], out |-> Out(b[p].addr)],
              blocks[Mgr(p)], DeleteKey(used[Mgr(p)], b[p].addr))
  /\ UNCHANGED <<blocks, heap, ret, total_used, total_allocated, held>>

\* -------------------------------------------------------- TotalAllocations
\* The caller: mm.TotalAllocations().  c := smallestBlockSize; ...
CallTotalAllocations(p, mm) ==
  /\ pc[p] = "idle"
  /\ m' = [m EXCEPT ![p] = mm]
  /\ pc' = [pc EXCEPT ![p] = "T_class"]
  /\ c' = [c EXCEPT ![p] = smallestBlockSize]
  /\ s' = [s EXCEPT ![p] = 0]
  /\ ret' = [ret EXCEPT ![p] = <<>>]
  /\ total_used' = [total_used EXCEPT ![p] = 0]
  /\ total_allocated' = [total_allocated EXCEPT ![p] = 0]
  /\ commits' = [commits EXCEPT ![p] =
                   {ReportOf(stable[Fields(mm)].blocks,
                             stable[Fields(mm)].used)}]
  /\ seen' = [seen EXCEPT ![p] = {[blocks |-> blocks[Fields(mm)],
                                   used |-> used[Fields(mm)]]}]
  /\ UNCHANGED <<blocks, used, mutex, heap, n, i, new_block, b, held, result,
                 outstanding, stable, cleared>>

\* for s := range m.blocks { ... }: one pass.  No mutex is taken: the pass
\* reads m.blocks and m.used as they are, whatever GetBlock or FreeBlock
\* another thread is in the middle of.
T_Class(p) ==
  /\ pc[p] = "T_class"
  /\ s[p] < NumClasses
  /\ LET a == ClassPass(blocks[Mgr(p)], used[Mgr(p)], s[p], c[p], ret[p],
                        total_used[p], total_allocated[p]) IN
       /\ ret' = [ret EXCEPT ![p] = a.ret]
       /\ total_used' = [total_used EXCEPT ![p] = a.total_used]
       /\ total_allocated' = [total_allocated EXCEPT ![p] = a.total_allocated]
       /\ c' = [c EXCEPT ![p] = a.c]
  /\ s' = [s EXCEPT ![p] = s[p] + 1]
  /\ UNCHANGED <<m, blocks, used, mutex, heap, pc, n, i, new_block, b, held,
                 result, outstanding, stable, seen, commits,
                 cleared>>

\* ret += fmt.Sprintf("Total memory used/allocated: ..."); return ret
T_Return(p) ==
  /\ pc[p] = "T_class"
  /\ s[p] = NumClasses
  /\ LET text == ReportText(ret[p], total_used[p], total_allocated[p]) IN
       result' = [result EXCEPT ![p] =
                    [kind |-> "report", op |-> "TotalAllocations",
                     m |-> m[p],
                     text |-> text,
                     atomic |-> text \in commits[p],
                     during |-> seen[p]]]
  /\ pc' = [pc EXCEPT ![p] = "returned"]
  /\ m' = [m EXCEPT ![p] = NoManager]
  /\ c' = [c EXCEPT ![p] = 0]
  /\ s' = [s EXCEPT ![p] = 0]
  /\ ret' = [ret EXCEPT ![p] = <<>>]
  /\ total_used' = [total_used EXCEPT ![p] = 0]
  /\ total_allocated' = [total_allocated EXCEPT ![p] = 0]
  /\ commits' = [commits EXCEPT ![p] = {}]
  /\ seen' = [seen EXCEPT ![p] = {}]
  /\ UNCHANGED <<blocks, used, mutex, heap, n, i, new_block, b, held,
                 outstanding, stable, cleared>>

\* ------------------------------------------------------------- the callers
\* The caller goes on after a call returned or after it recovered from the
\* panic of a call.
Resume(p) ==
  /\ pc[p] = "returned"
  /\ pc' = [pc EXCEPT ![p] = "idle"]
  /\ result' = [result EXCEPT ![p] = NoResult]
  /\ UNCHANGED <<m, blocks, used, mutex, heap, n, c, s, i, new_block, b, ret,
                 total_used, total_allocated, held, outstanding, stable, seen,
                 commits,
                 cleared>>

\* The offset a caller writes through a view: its last byte.
WriteOffsets(v) == {o \in {v.len - 1} : 0 <= o /\ o < v.len}

\* A caller stores a nonzero byte through the view it keeps, be it still
\* its own or one it has released already.
Write(p, o) ==
  /\ pc[p] = "idle"
  /\ held[p] # NoView
  /\ o \notin heap[held[p].addr].dirty
  /\ heap' = [heap EXCEPT ![held[p].addr].dirty = @ \cup {o}]
  /\ UNCHANGED <<m, blocks, used, mutex, pc, n, c, s, i, new_block, b, ret,
                 total_used, total_allocated, held, result, outstanding,
                 stable, seen, commits,
                 cleared>>

\* A step inside GetBlock or FreeBlock, or the caller going on after a call.
ManagerStep(p) ==
  \/ G_Lock(p)
  \/ G_Search(p)
  \/ G_Scan(p)
  \/ G_Mark(p)
  \/ G_Zero(p)
  \/ G_Return(p)
  \/ G_Make(p)
  \/ G_Append(p)
  \/ G_MarkNew(p)
  \/ G_Slice(p)
  \/ F_Lock(p)
  \/ F_Check(p)
  \/ F_Delete(p)
  \/ Resume(p)

\* Two threads that take and release blocks.
Next ==
  \E p \in Procs :
    \/ \E k \in Sizes : CallGetBlock(p, "A", k)
    \/ \E v \in FreeArgs(p) : CallFreeBlock(p, "A", v)
    \/ ManagerStep(p)

Spec == Init /\ [][Next]_vars

\* One thread that takes and releases blocks, writes into them and asks
\* for the report.
NextOne ==
  \E p \in {"p1"} :
    \/ \E k \in ByteSizes : CallGetBlock(p, "A", k)
    \/ \E v \in FreeArgs(p) : CallFreeBlock(p, "A", v)
    \/ ManagerStep(p)
    \/ \E o \in WriteOffsets(held[p]) : Write(p, o)
    \/ CallTotalAllocations(p, "A")
    \/ T_Class(p)
    \/ T_Return(p)

SpecOne == Init /\ [][NextOne]_vars

\* One thread that takes blocks of sizes all over the supported range.
NextWide ==
  \E p \in {"p1"} :
    \/ \E k \in WideSizes : CallGetBlock(p, "A", k)
    \/ \E v \in FreeArgs(p) : CallFreeBlock(p, "A", v)
    \/ ManagerStep(p)

SpecWide == Init /\ [][NextWide]_vars

\* One thread that takes and releases blocks, and one that asks for the
\* report meanwhile.
NextReport ==
  \/ (Len(heap) < MaxReportBlocks
        /\ \E k \in ReportSizes : CallGetBlock("p1", "A", k))
  \/ \E v \in FreeArgs("p1") : CallFreeBlock("p1", "A", v)
  \/ ManagerStep("p1")
  \/ CallTotalAllocations("p2", "A")
  \/ T_Class("p2")
  \/ T_Return("p2")
  \/ Resume("p2")

SpecReport == Init /\ [][NextReport]_vars

\* The manager a thread takes its blocks from.
Home(p) == IF p = "p1" THEN "A" ELSE "B"

\* Two threads that take blocks each from a manager of its own and release
\* them to either manager.
NextTwo ==
  \E p \in Procs :
    \/ \E k \in TwoSizes : CallGetBlock(p, Home(p), k)
    \/ \E mm \in Managers, v \in FreeArgs(p) : CallFreeBlock(p, mm, v)
    \/ ManagerStep(p)

SpecTwo == Init /\ [][NextTwo]_vars

\* ------------------------------------------------------------ the claims
\* The size of class t, and the size of the largest class.
ClassSize(t) == smallestBlockSize * 2^t
LargestClassSize == ClassSize(NumClasses - 1)

\* Thread p is back from GetBlock with a view.
GotView(p) == pc[p] = "returned" /\ result[p].kind = "view"

\* Thread p is back from FreeBlock, freed or panicked.
BackFromFree(p) == pc[p] = "returned" /\ result[p].op = "FreeBlock"

\* C1: every GetBlock(n) with 0 <= n <= 1024*2^20 returns a view of length
\* exactly n, from a new block as well as from a reused one.
C1_ViewLengthIsN ==
  \A p \in Procs :
    (GotView(p) /\ 0 <= result[p].n /\ result[p].n <= LargestClassSize)
      => result[p].len = result[p].n

\* C2: no block ever backs two views that are both outstanding (returned
\* by GetBlock and not released by a FreeBlock since).
C2_NoDoubleAllocation ==
  \A a \in DOMAIN outstanding : outstanding[a] <= 1

\* C2, its case: a thread has won a free block while the other thread is
\* inside GetBlock for the same class, waiting for the mutex.
C2_WonUnderContention ==
  \E p, q \in Procs :
    /\ p # q
    /\ GotView(p) /\ result[p].reused
    /\ pc[q] = "G_lock" /\ n[q] = result[p].n

\* C3: a view that GetBlock returns from a reused block holds no nonzero
\* byte, whatever was written into the block before.
C3_ZeroOnReuse ==
  \A p \in Procs : (GotView(p) /\ result[p].reused) => result[p].nonzero = {}

\* C3, its case: a reused block that held nonzero bytes came back all zero.
C3_DirtyBlockReused ==
  \E p \in Procs :
    GotView(p) /\ result[p].reused /\ result[p].cleared # {}
      /\ result[p].nonzero = {}

\* C4: FreeBlock panics whenever the block of its view is not checked out
\* (a foreign view, a view released before), and it frees only a block that
\* is checked out.
C4_FreeOnlyCheckedOut ==
  \A p \in Procs :
    BackFromFree(p) =>
      /\ result[p].out = 0 => result[p].kind = "panic"
      /\ result[p].kind = "freed" => result[p].out = 1

\* C4, its case: the second FreeBlock of a released view has panicked.
C4_SecondFreePanicked ==
  \E p \in Procs :
    /\ BackFromFree(p) /\ result[p].kind = "panic"
    /\ result[p].why = "Tried to free an unused block"
    /\ result[p].b = held[p] /\ result[p].out = 0

\* The smallest class whose size is at least k.
SmallestClass(k) ==
  CHOOSE t \in Classes :
    ClassSize(t) >= k /\ \A u \in Classes : u < t => ClassSize(u) < k

\* The set of the blocks of class t of manager mm.
BlocksOf(mm, t) == {blocks[mm][t][k] : k \in 1 .. Len(blocks[mm][t])}

\* C5: the block behind the view of GetBlock(n), 0 <= n <= 1024*2^20, is a
\* block of the smallest class whose size is at least n, and has that size.
C5_SmallestSufficientClass ==
  \A p \in Procs :
    (GotView(p) /\ 0 <= result[p].n /\ result[p].n <= LargestClassSize)
      => /\ result[p].cap = ClassSize(SmallestClass(result[p].n))
         /\ result[p].addr \in
              BlocksOf(result[p].m, SmallestClass(result[p].n))

\* C5, its case: a size one past the size of class 0 was served by reuse
\* from class 1 while class 0 holds a block of its own.
C5_BoundarySizesServed ==
  /\ Len(blocks["A"][0]) = 1 /\ Len(blocks["A"][1]) = 1
  /\ \E p \in Procs :
       GotView(p) /\ result[p].n = smallestBlockSize + 1 /\ result[p].reused

\* C6: a GetBlock for more than the largest class is rejected without the
\* class size or the class index overflowing: while it runs, c is a class
\* size and s is at most the number of classes.
C6_OversizeRejectedCleanly ==
  \A p \in Procs :
    (pc[p] \in GetPcs /\ pc[p] # "G_lock" /\ n[p] > LargestClassSize)
      => c[p] >= smallestBlockSize /\ s[p] <= NumClasses

\* C7: FreeBlock of a view that GetBlock returned, for any n >= 0, and that
\* is outstanding succeeds.
C7_OutstandingViewCanBeFreed ==
  \A p \in Procs :
    (BackFromFree(p) /\ result[p].out = 1) => result[p].kind = "freed"

\* The bytes allocated: the sum over the classes from t on of class size
\* times block count.
RECURSIVE BytesFrom(_, _)
BytesFrom(bl, t) ==
  IF t = NumClasses THEN 0 ELSE ClassSize(t) * Len(bl[t]) + BytesFrom(bl, t + 1)
TotalBytes(bl) == BytesFrom(bl, 0)

\* Class t of bl holds a free block.
HasFree(bl, us, t) == \E k \in 1 .. Len(bl[t]) : bl[t][k] \notin us

\* C8: a class that holds a free block does not grow: the GetBlock that has
\* the mutex reuses a block of it.
C8_NoGrowthWhileFree ==
  [][\A mm \in Managers, t \in Classes :
       HasFree(blocks[mm], used[mm], t) =>
         Len(blocks'[mm][t]) = Len(blocks[mm][t])]_vars

\* C8, its case: GetBlock, FreeBlock, GetBlock of one class: the second
\* GetBlock has reused the only block of the class.
C8_ReusedOnlyBlock ==
  \E p \in Procs :
    GotView(p) /\ result[p].reused
      /\ Len(blocks[result[p].m][result[p].class]) = 1

\* One step as C9 has it: it removes no block from its class, and it
\* changes the bytes allocated only as GetBlock's append, by one block of
\* the size of its class, taken when no block of that class is free.
C9_Step ==
  \A mm \in Managers :
    /\ \A t \in Classes :
         /\ Len(blocks'[mm][t]) >= Len(blocks[mm][t])
         /\ SubSeq(blocks'[mm][t], 1, Len(blocks[mm][t])) = blocks[mm][t]
    /\ (TotalBytes(blocks'[mm]) # TotalBytes(blocks[mm])) =>
         (\E p \in Procs :
            /\ pc[p] = "G_append" /\ pc'[p] = "G_marknew" /\ m[p] = mm
            /\ TotalBytes(blocks'[mm]) =
                 TotalBytes(blocks[mm]) + ClassSize(s[p])
            /\ ~HasFree(blocks[mm], used[mm], s[p]))

\* C9: no step of GetBlock, FreeBlock or TotalAllocations removes a block
\* from its class or lowers the bytes allocated, and the only step that
\* raises them is GetBlock's append when no block of its class is free.
C9_MonotonicGrowth == [][C9_Step]_vars

\* C9, its case: blocks of two classes were allocated, one was released and
\* the report was taken since, the bytes allocated staying what they were.
C9_AllocatedThenFreed ==
  /\ TotalBytes(blocks["A"]) = ClassSize(0) + ClassSize(1)
  /\ used["A"] # BlocksOf("A", 0) \cup BlocksOf("A", 1)
  /\ \E p \in Procs : pc[p] = "returned" /\ result[p].kind = "report"

\* C10: every report of TotalAllocations is the report of a state of the
\* manager between two complete operations.
C10_ReportIsOfStableState ==
  \A p \in Procs :
    (pc[p] = "returned" /\ result[p].kind = "report") => result[p].atomic

\* C11: the search loop of GetBlock terminates for every n.  WordBits
\* doublings turn any class size into 0, which doubling leaves at 0: a loop
\* that has not ended within WordBits passes never ends.
C11_SearchLoopTerminates ==
  \A p \in Procs : pc[p] = "G_search" => LoopEnds(c[p], n[p], WordBits)

\* Thread p is back from TotalAllocations with the report.
GotReport(p) == pc[p] = "returned" /\ result[p].kind = "report"

\* The only block the manager has made so far is one of the 2048-byte
\* class: the state of a fresh manager after GetBlock(2000), and after
\* FreeBlock of the view.
OnlyBlockIsOf2048 == Len(heap) = 1 /\ blocks["A"][1] = <<1>>

\* C12 as it stands: on a fresh manager the report after a = GetBlock(2000)
\* contains "2048 bytes: 1/1 blocks in use.", and the report after
\* FreeBlock(a) contains "2048 bytes: 0/1 blocks in use.".
C12_ReportShowsFreedClass ==
  \A p \in Procs :
    (GotReport(p) /\ OnlyBlockIsOf2048) =>
      LET lines == {result[p].text[k] : k \in 1 .. Len(result[p].text)} IN
      /\ used["A"] = {1} => "2048 bytes: 1/1 blocks in use.\n" \in lines
      /\ used["A"] = {} => "2048 bytes: 0/1 blocks in use.\n" \in lines

\* C12, amended: on a fresh manager the report after a = GetBlock(2000) is
\* "2048 bytes: 1/1 blocks in use." and the totals 2048/2048; the report
\* after FreeBlock(a) has no line for the 2048-byte class and is the totals
\* 0/2048 alone.
C12_ReportAfterGetAndFree ==
  \A p \in Procs :
    (GotReport(p) /\ OnlyBlockIsOf2048) =>
      /\ used["A"] = {1} =>
           result[p].text = <<"2048 bytes: 1/1 blocks in use.\n",
                              "Total memory used/allocated: 2048/2048\n">>
      /\ used["A"] = {} =>
           result[p].text = <<"Total memory used/allocated: 0/2048\n">>

\* C12, its case: the report taken after GetBlock(2000) and FreeBlock of
\* its view on a fresh manager.
C12_ReportedAfterFree ==
  \E p \in Procs :
    /\ GotReport(p) /\ OnlyBlockIsOf2048 /\ used["A"] = {}
    /\ held[p] = [addr |-> 1, len |-> 2000]

\* The blocks of class t of bl that are in use.
InUse(bl, us, t) == Cardinality({k \in 1 .. Len(bl[t]) : bl[t][k] \in us})

\* The bytes in use: the sum over the classes from t on of class size times
\* blocks in use.
RECURSIVE UsedBytesFrom(_, _, _)
UsedBytesFrom(bl, us, t) ==
  IF t = NumClasses THEN 0
  ELSE ClassSize(t) * InUse(bl, us, t) + UsedBytesFrom(bl, us, t + 1)

\* The lines of the classes from t on that have a block in use.
RECURSIVE LinesFrom(_, _, _)
LinesFrom(bl, us, t) ==
  IF t = NumClasses THEN <<>>
  ELSE (IF InUse(bl, us, t) >= 1
        THEN <<ClassLine(ClassSize(t), InUse(bl, us, t), Len(bl[t]))>>
        ELSE <<>>) \o LinesFrom(bl, us, t + 1)

\* The report C13 describes for the manager's fields bl and us.
ExpectedReport(bl, us) ==
  Append(LinesFrom(bl, us, 0),
         TotalsLine(UsedBytesFrom(bl, us, 0), TotalBytes(bl)))

\* C13: a report of TotalAllocations lists exactly the classes with a block
\* in use, each with its size 1024*2^s, its blocks in use and its blocks,
\* then the totals of the bytes in use and the bytes allocated, the former
\* at most the latter: it is the report so described of a state the
\* manager was in during the call.
C13_ReportListsClassesInUse ==
  \A p \in Procs :
    GotReport(p) =>
      \E st \in result[p].during :
        /\ result[p].text = ExpectedReport(st.blocks, st.used)
        /\ UsedBytesFrom(st.blocks, st.used, 0) <= TotalBytes(st.blocks)

\* The blocks in the class collections of manager mm.
AllBlocks(mm) == UNION {BlocksOf(mm, t) : t \in Classes}

\* One step as C14 has it: the collections and the checked-out set of a
\* manager change only in a step of a GetBlock or FreeBlock called on that
\* manager, and a FreeBlock called on one manager with a view of a block of
\* another one panics at its check, every checked-out set staying as it is.
C14_Step ==
  /\ \A mm \in Managers :
       (blocks'[mm] # blocks[mm] \/ used'[mm] # used[mm]) =>
         \E p \in Procs :
           m[p] = mm /\ pc[p] \in GetPcs \cup FreePcs /\ pc'[p] # pc[p]
  /\ \A p \in Procs :
       (/\ pc[p] = "F_check" /\ pc'[p] # pc[p]
        /\ \E mm \in Managers \ {m[p]} : b[p].addr \in AllBlocks(mm))
         => result'[p].kind = "panic" /\ used' = used

\* C14: two managers share no state, and FreeBlock on one manager of a view
\* acquired from the other panics and leaves the block checked out there.
C14_ManagersShareNoState == [][C14_Step]_vars

\* C14, its case: manager B has refused a view of a block of manager A that
\* is still checked out in A, B holding a block of its own.
C14_ForeignManagerRefused ==
  \E p \in Procs :
    /\ BackFromFree(p) /\ result[p].kind = "panic" /\ result[p].m = "B"
    /\ result[p].b.addr \in AllBlocks("A") \cap used["A"]
    /\ AllBlocks("B") # {}

\* The collection of class t of manager mm is the one place of the block
\* at address a: it holds a once, and no other collection holds it.
OnlyPlace(a, mm, t) ==
  /\ Cardinality({k \in 1 .. Len(blocks[mm][t]) : blocks[mm][t][k] = a}) = 1
  /\ \A m2 \in Managers, t2 \in Classes :
       (m2 # mm \/ t2 # t) => a \notin BlocksOf(m2, t2)

\* C15: the checked-out set of a manager holds only blocks of its class
\* collections, and every block made is in one collection, that of the
\* class of its size, once, in use or free as the checked-out set has it or
\* not; the one exception is the block GetBlock has just made and is about
\* to append.
C15_BlocksFreeOrInUse ==
  /\ \A mm \in Managers : used[mm] \subseteq AllBlocks(mm)
  /\ \A a \in DOMAIN heap :
       \/ \E p \in Procs : pc[p] = "G_append" /\ new_block[p] = a
       \/ \E mm \in Managers, t \in Classes :
            heap[a].len = ClassSize(t) /\ OnlyPlace(a, mm, t)

\* C15, its case: a manager holds a free block and a block in use, after
\* a FreeBlock.
C15_FreeAndInUse ==
  \E mm \in Managers :
    /\ AllBlocks(mm) \ used[mm] # {} /\ used[mm] # {}
    /\ \E p \in Procs : BackFromFree(p) /\ result[p].kind = "freed"

\* The first block of class t of bl, in the order of the collection, that
\* is not in us.
FirstFree(bl, us, t) ==
  bl[t][CHOOSE k \in 1 .. Len(bl[t]) :
          bl[t][k] \notin us /\ \A j \in 1 .. (k - 1) : bl[t][j] \in us]

\* One step as C16 has it: the block GetBlock marks for reuse is the first
\* free block of the class, the view it returns by reuse is of a block
\* before which every block of the class is in use, and it makes a new
\* block only when the class holds no free block.
C16_Step ==
  \A p \in Procs :
    LET bl == blocks[m[p]]
        us == used[m[p]] IN
    /\ (pc[p] = "G_mark" /\ pc'[p] = "G_zero") =>
         /\ HasFree(bl, us, s[p])
         /\ used'[m[p]] = us \cup {FirstFree(bl, us, s[p])}
    /\ (pc[p] = "G_return" /\ pc'[p] = "returned") =>
         \E k \in 1 .. Len(bl[s[p]]) :
           /\ result'[p].addr = bl[s[p]][k]
           /\ \A j \in 1 .. (k - 1) : bl[s[p]][j] \in us
    /\ (pc[p] = "G_make" /\ pc'[p] = "G_append") => ~HasFree(bl, us, s[p])

\* C16: GetBlock reuses the first free block of the class in the order of
\* its collection, and allocates only when every block of the class is in
\* use.
C16_EarliestFreeReused == [][C16_Step]_vars

\* C16, its case: of two free blocks of a class GetBlock has reused the
\* first, the second being free still.
C16_FirstOfTwoReused ==
  \E p \in Procs :
    /\ GotView(p) /\ result[p].reused
    /\ Len(blocks[result[p].m][result[p].class]) >= 2
    /\ result[p].addr = blocks[result[p].m][result[p].class][1]
    /\ blocks[result[p].m][result[p].class][2] \notin used[result[p].m]

\* C17 as it stands: for 1 <= n <= 1024*2^20 the capacity of the block
\* behind the view of GetBlock(n) is at most 2n.
C17_CapacityAtMostTwiceN ==
  \A p \in Procs :
    (GotView(p) /\ 1 <= result[p].n /\ result[p].n <= LargestClassSize)
      => result[p].cap - result[p].n <= result[p].n

\* C17, amended: for 1 <= n <= 1024*2^20 the capacity of the block behind
\* the view of GetBlock(n) is at most 2n when n is at least half the
\* smallest block size, and is the smallest block size when n is less.
C17_CapacityAtMostTwiceNOrSmallest ==
  \A p \in Procs :
    (GotView(p) /\ 1 <= result[p].n /\ result[p].n <= LargestClassSize)
      => IF result[p].n >= smallestBlockSize - result[p].n
         THEN result[p].cap - result[p].n <= result[p].n
         ELSE result[p].cap = smallestBlockSize

\* C17, its case: a request of one byte past a class size was served with
\* a block of less than twice the request, and so was the largest request.
C17_JustPastClassSize ==
  \E p \in Procs :
    /\ GotView(p) /\ result[p].n = ClassSize(1) + 1
    /\ result[p].cap = ClassSize(2)
    /\ \E a \in DOMAIN heap : heap[a].len = LargestClassSize

\* One step as C18 has it: the FreeBlock that succeeds takes the block of
\* its view, which is checked out, out of the checked-out set of its
\* manager and changes nothing else: no byte of any block, no collection,
\* no other block's being checked out.
C18_Step ==
  \A p \in Procs :
    (pc[p] = "F_delete" /\ pc'[p] = "returned") =>
      /\ result'[p].kind = "freed"
      /\ b[p].addr \in used[m[p]]
      /\ used' = [used EXCEPT ![m[p]] = @ \ {b[p].addr}]
      /\ blocks' = blocks
      /\ heap' = heap

\* C18: a successful FreeBlock changes only the checked-out status of the
\* one block.
C18_FreeChangesOneStatus == [][C18_Step]_vars

\* C18, its case: a block holding a nonzero byte was released while
\* another block is checked out; the byte is still there.
C18_FreedWithBytesKept ==
  \E p \in Procs :
    /\ BackFromFree(p) /\ result[p].kind = "freed"
    /\ heap[result[p].b.addr].dirty # {}
    /\ used[result[p].m] # {}

\* The statements of GetBlock and FreeBlock that run with the mutex held.
LockedPcs == (GetPcs \cup FreePcs) \ {"G_lock", "F_lock"}

\* One step as C19 has it: a FreeBlock that panics changes no collection,
\* no checked-out set and no byte and leaves the mutex of its manager
\* unlocked; and a mutex is held only by a thread inside a method of its
\* manager, so that a later Lock() gets it.
C19_Step ==
  /\ \A p \in Procs :
       (pc[p] \in FreePcs /\ pc'[p] = "returned"
          /\ result'[p].kind = "panic") =>
         /\ blocks' = blocks /\ used' = used /\ heap' = heap
         /\ mutex'[m[p]] = NoProc
  /\ \A mm \in Managers :
       mutex'[mm] # NoProc =>
         pc'[mutex'[mm]] \in LockedPcs /\ m'[mutex'[mm]] = mm

\* C19: the fatal path of FreeBlock leaves the manager unchanged and
\* releases the mutex, and later calls proceed.
C19_FatalFreeReleasesMutex == [][C19_Step]_vars

\* C19, its case: a FreeBlock has panicked, and since then the other
\* thread has taken the mutex of the same manager and is about to return
\* a block.
C19_CallAfterFatalFree ==
  \E p, q \in Procs :
    /\ p # q
    /\ BackFromFree(p) /\ result[p].kind = "panic"
    /\ pc[q] = "G_return" /\ m[q] = result[p].m
    /\ mutex[result[p].m] = q

\* One step as C20 has it: a GetBlock that panics leaves the collections
\* and the checked-out set of its manager as they were when the call took
\* the mutex, which is as the last completed operation left them, and
\* leaves the mutex unlocked.
C20_Step ==
  \A p \in Procs :
    (pc[p] \in GetPcs /\ pc'[p] = "returned" /\ result'[p].kind = "panic") =>
      /\ blocks'[m[p]] = stable[m[p]].blocks
      /\ used'[m[p]] = stable[m[p]].used
      /\ mutex'[m[p]] = NoProc

\* C20: a GetBlock that fails, for n past the largest class or for a
\* negative n, creates no block, leaves none marked in use and releases the
\* mutex.
C20_FailedGetBlockChangesNothing == [][C20_Step]_vars

====
